---- MODULE Spec2Model ----
(***************************************************************************)
(* A state-machine model of the ngc-learn simulation units:                *)
(*   - LIFCell        (components/neurons/spiking/LIFCell.py)               *)
(*   - BernoulliCell  (components/input_encoders/bernoulliCell.py)          *)
(*   - ExpKernel      (components/other/expKernel.py)                       *)
(*   - ENode/SCable   (engine/nodes/enode.py, engine/cables/scable.py)      *)
(*   - RewardErrorCell (components/neurons/graded/rewardErrorCell.py)       *)
(*                                                                         *)
(* Floating-point quantities are modelled in fixed point: every definition *)
(* states its unit.  Random draws are nondeterministic choices over the    *)
(* values the draw can return.  Each unit has its own specification        *)
(* (SpecLIF, SpecBern, SpecKernel, SpecENode, SpecPrec, SpecReward,        *)
(* SpecSlots); a specification                                             *)
(* leaves the variables of the other units at their constructed values.    *)
(***************************************************************************)
EXTENDS Integers, Sequences, FiniteSets, TLC

VARIABLES
    sched,        \* the unit the external scheduler drives in this run
    \* ---- LIFCell ----
    lif_cfg,      \* constructor arguments: [one_spike, v_reset, tau_theta, refract_T]
    lif_j,        \* compartment 'j'    (input current), unit -> centi-mV
    lif_v,        \* compartment 'v'    (membrane potential), unit -> centi-mV
    lif_rfr,      \* compartment 'rfr'  (refractory counter), unit -> ms
    lif_theta,    \* compartment 'thrTheta' (adaptive threshold offset), centi-mV
    lif_s,        \* compartment 's'    (output spikes), unit -> 0/1
    lif_tols,     \* compartment 'tols' (time of last spike), unit -> ms
    lif_raw,      \* raw_spikes returned by run_cell in the last advance_state
    lif_clock,    \* the time t the scheduler passes to the next advance_state
    lif_rest,     \* history: number of advance_state calls since reset(), all
                  \* with zero input current; -1 once one had a nonzero current
    \* ---- BernoulliCell ----
    bern_cfg,     \* constructor arguments: [target_freq]
    bern_inputs,  \* compartment 'inputs', unit -> tenths
    bern_outputs, \* compartment 'outputs', unit -> 0/1
    bern_tols,    \* compartment 'tols', unit -> ms
    bern_eps,     \* the uniform draw of the last advance_state, unit -> 1e-6
    bern_clock,   \* the time t passed to the next advance_state
    \* ---- ExpKernel ----
    kern_cfg,     \* constructor arguments: [nu]
    kern_inputs,  \* compartment 'inputs' (spikes), unit -> 0/1
    kern_tf,      \* compartment 'tf' : sequence of win_len snapshots, unit -> ms
    kern_epsp,    \* compartment 'epsp', unit -> 1e-4
    kern_clock,   \* the time t passed to the next advance_state
    kern_spk,     \* history: unit -> [n: spikes fed so far (counted up to 2),
                  \*                     t0: time of the first of them]
    \* ---- ENode ----
    en_cables,    \* input_cables: sequence of [out_var, coeff]
    en_phase,     \* "setup" while the graph is wired, then "run"
    en_ok,        \* what check_correctness returned for this wiring, or "unchecked"
    en_stat,      \* stat: variable name -> value (a vector over Dims) or None
    en_tick,      \* tick: variable name -> number of writes in this step
    en_clamped,   \* is_clamped
    en_halted,    \* the process has exited (sys.exit, or an uncaught error)
    en_Sigma,     \* Sigma: covariance matrix, in units of 1/4000, or None
    en_Prec,      \* Prec: precision matrix, in units of 1/4000, or None
    en_chol,      \* the matrix last handed to tf.linalg.cholesky, or None
    en_ops,       \* number of compute_precision calls and updates so far
    en_last,      \* history: [kind, src] of the last operation: kind is
                  \* "none" (constructed or cleared), "set" (clamp or mask
                  \* set), or the outcome of a step: "core", "skipped",
                  \* "exit" (sys.exit) or "raised", with src the values the
                  \* cables read in that step; "prec" (compute_precision,
                  \* with src = <<rebuild_cov>>) or "update"
    \* ---- RewardErrorCell (a slot is a row of exact rationals <<num, den>>) ----
    rew_cfg,      \* constructor arguments: [alpha, ema_window_len]
    rew_mu,       \* compartment 'mu'
    rew_reward,   \* compartment 'reward'
    rew_rpe,      \* compartment 'rpe'
    rew_accum,    \* compartment 'accum_reward'
    rew_Ns,       \* compartment 'Ns'
    rew_n,        \* compartment 'n_ep_steps'
    rew_ops,      \* number of advance_state and evolve calls so far
    rew_last,     \* history: the last operation: "none", "set", "advance",
                  \* "evolve" or "reset"
    rew_run,      \* history: number of advance_state calls in a row, with
                  \* nothing else in between (so with the same reward)
    \* ---- LIFCell compartments as the property setters see them ----
    slot_shape,   \* compartment name -> shape <<rows, cols>> of its value, or None
    slot_last     \* history: [slot, shape, raised] of the last assignment
                  \* through a property setter, or [slot |-> "none"]

lifVars  == <<lif_cfg, lif_j, lif_v, lif_rfr, lif_theta, lif_s, lif_tols,
              lif_raw, lif_clock, lif_rest>>
bernVars == <<bern_cfg, bern_inputs, bern_outputs, bern_tols, bern_eps, bern_clock>>
kernVars == <<kern_cfg, kern_inputs, kern_tf, kern_epsp, kern_clock, kern_spk>>
enVars   == <<en_cables, en_phase, en_ok, en_stat, en_tick, en_clamped,
              en_halted, en_Sigma, en_Prec, en_chol, en_ops, en_last>>
rewVars  == <<rew_cfg, rew_mu, rew_reward, rew_rpe, rew_accum, rew_Ns, rew_n,
              rew_ops, rew_last, rew_run>>
slotVars == <<slot_shape, slot_last>>
vars     == <<sched, lifVars, bernVars, kernVars, enVars, rewVars, slotVars>>

----------------------------------------------------------------------------
(* Bounds of the model *)

\* number of units of the LIFCell (n_units); the batch size is 1
NUnits == 2
\* the scheduler stops the LIFCell after this many milliseconds
MaxT == 4
\* number of units of the BernoulliCell, and the length of its run in ms
BernUnits == 2
BernMaxT == 3
\* number of units of the ExpKernel, and the length of its run in ms
KernUnits == 2
KernMaxT == 4

Units == 1..NUnits
BUnits == 1..BernUnits
KUnits == 1..KernUnits
\* integration step passed to advance_state by the scheduler, in ms
Dt == 1

Zeros == [i \in Units |-> 0]
BZeros == [i \in BUnits |-> 0]
KZeros == [i \in KUnits |-> 0]

RECURSIVE SumOver(_, _)
SumOver(f, S) ==
    IF S = {} THEN 0
    ELSE LET x == CHOOSE y \in S : TRUE IN f[x] + SumOver(f, S \ {x})

----------------------------------------------------------------------------
(* Time of last spike: LIFCell.update_times and bernoulliCell._update_times *)

UpdateTimesSticky(t, s, tols) ==
    [i \in DOMAIN s |-> IF s[i] = 1 /\ tols[i] = 0 THEN t ELSE tols[i]]

\* _tols = (1. - s) * tols + (s * t)
UpdateTimes(t, s, tols) ==
    [i \in DOMAIN s |-> (1 - s[i]) * tols[i] + (s[i] * t)]

----------------------------------------------------------------------------
(* LIFCell.  Voltages are in centi-mV (0.01 mV), times in ms. *)

\* __init__ defaults: thr=-52., v_rest=-65., v_reset=60., theta_plus=0.05,
\* refract_T=5.
ThrDefault       == -5200
VRestDefault     == -6500
VResetDefault    == 6000
ThetaPlusDefault == 5
RefractTDefault  == 5
\* a reset potential below the threshold (the "# -60." of the source comment)
VResetBelowThr   == -6000
\* membrane time constant tau_m (no default), in ms
TauM == 2
\* input currents the wiring can deliver: none, or one that lifts a resting
\* unit above the default threshold in a single step
JVals == {0, 2000}

\* threshold time constants: 0 turns adaptation off; for the others the
\* factor exp(-dt/tau_theta) is <<numerator, denominator>>:
\* "slow" is the default tau_theta=1e7, "fast" is tau_theta = dt/ln(2)
ThetaDecay(tau_theta) ==
    IF tau_theta = "slow" THEN <<9999999, 10000000>> ELSE <<1, 2>>

\* the constructor defaults (one_spike=True, v_reset=60., tau_theta=1e7,
\* refract_T=5.) and three settings that vary them
RefractTShort == 2
LIFConfigs ==
    { [one_spike |-> TRUE,  v_reset |-> VResetDefault,  tau_theta |-> "slow",
       refract_T |-> RefractTDefault],
      [one_spike |-> FALSE, v_reset |-> VResetDefault,  tau_theta |-> "off",
       refract_T |-> RefractTShort],
      [one_spike |-> TRUE,  v_reset |-> VResetBelowThr, tau_theta |-> "fast",
       refract_T |-> RefractTShort],
      [one_spike |-> FALSE, v_reset |-> VResetBelowThr, tau_theta |-> "slow",
       refract_T |-> RefractTDefault] }

\* run_cell; pick is the index random.choice(skey, n, p=s) returns when a
\* key is given (any index when no unit spiked: m_switch is then 0)
RunCell(dt, j, v, v_thr, v_theta, rfr, useKey, pick, tau_m, v_rest, v_reset, refract_T) ==
    LET thr   == [i \in Units |-> v_theta[i] + v_thr]
        mask  == [i \in Units |-> IF rfr[i] >= refract_T THEN 1 ELSE 0]
        v1    == [i \in Units |->
                    v[i] + ((v_rest - v[i]) * dt) \div tau_m + (j[i] * mask[i])]
        s     == [i \in Units |-> IF v1[i] > thr[i] THEN 1 ELSE 0]
        rfr1  == [i \in Units |-> (rfr[i] + dt) * (1 - s[i])]
        v2    == [i \in Units |-> v1[i] * (1 - s[i]) + s[i] * v_reset]
        m_switch == IF SumOver(s, Units) > 0 THEN 1 ELSE 0
        rS    == [i \in Units |-> IF i = pick THEN 1 ELSE 0]
        sOut  == IF useKey
                 THEN [i \in Units |-> s[i] * (1 - m_switch) + rS[i] * m_switch]
                 ELSE s
    IN [v |-> v2, s |-> sOut, raw_s |-> s, rfr |-> rfr1]

\* update_theta without the increment on a spike
UpdateThetaNoPlus(v_theta, s, tau_theta, theta_plus) ==
    LET d == ThetaDecay(tau_theta)
    IN [i \in Units |-> (2 * v_theta[i] * d[1] + d[2]) \div (2 * d[2])]

\* update_theta: v_theta * exp(-dt/tau_theta) + s * theta_plus, rounded to
\* the nearest centi-mV
UpdateTheta(v_theta, s, tau_theta, theta_plus) ==
    LET d == ThetaDecay(tau_theta)
    IN [i \in Units |->
          (2 * v_theta[i] * d[1] + d[2]) \div (2 * d[2]) + s[i] * theta_plus]

\* the indices random.choice(skey, n, p=s) can return
Picks(s) ==
    IF \E i \in Units : s[i] = 1 THEN {i \in Units : s[i] = 1} ELSE {1}

LIFResetStateKeepV ==
    /\ lif_v' = lif_v
    /\ lif_rfr' = [i \in Units |-> lif_cfg.refract_T]
    /\ lif_j' = Zeros
    /\ lif_tols' = Zeros
    /\ lif_s' = Zeros

\* LIFCell.reset
LIFResetState ==
    /\ lif_v' = [i \in Units |-> VRestDefault]
    /\ lif_rfr' = [i \in Units |-> lif_cfg.refract_T]
    /\ lif_j' = Zeros
    /\ lif_tols' = Zeros
    /\ lif_s' = Zeros

\* LIFCell.__init__: threshold_theta = zeros, then reset()
LIFInit ==
    /\ lif_cfg \in LIFConfigs
    /\ lif_theta = Zeros
    /\ lif_v = [i \in Units |-> VRestDefault]
    /\ lif_rfr = [i \in Units |-> lif_cfg.refract_T]
    /\ lif_j = Zeros
    /\ lif_tols = Zeros
    /\ lif_s = Zeros
    /\ lif_raw = Zeros
    /\ lif_clock = 0
    /\ lif_rest = 0

\* the wiring writes the input compartment (current setter)
LIFSetCurrent ==
    /\ \E inp \in [Units -> JVals] : lif_j' = inp
    /\ UNCHANGED <<lif_cfg, lif_v, lif_rfr, lif_theta, lif_s, lif_tols,
                   lif_raw, lif_clock, lif_rest>>

\* the key is split, and handed to run_cell, only when one_spike is False
LIFUseKey == lif_cfg.one_spike = FALSE

\* LIFCell.advance_state(t, dt) with t = lif_clock
LIFAdvance ==
    /\ lif_clock < MaxT
    /\ \E pick \in Units :
         LET r == RunCell(Dt, lif_j, lif_v, ThrDefault, lif_theta, lif_rfr,
                          LIFUseKey, pick, TauM, VRestDefault,
                          lif_cfg.v_reset, lif_cfg.refract_T)
         IN /\ LIFUseKey => pick \in Picks(r.raw_s)
            /\ ~LIFUseKey => pick = 1
            /\ lif_v' = r.v
            /\ lif_s' = r.s
            /\ lif_raw' = r.raw_s
            /\ lif_rfr' = r.rfr
            /\ lif_theta' = IF lif_cfg.tau_theta # "off"
                            THEN UpdateTheta(lif_theta, r.raw_s,
                                             lif_cfg.tau_theta, ThetaPlusDefault)
                            ELSE lif_theta
            /\ lif_tols' = UpdateTimes(lif_clock, r.s, lif_tols)
    /\ lif_clock' = lif_clock + Dt
    /\ lif_rest' = IF lif_rest >= 0 /\ lif_j = Zeros THEN lif_rest + 1 ELSE -1
    /\ UNCHANGED <<lif_cfg, lif_j>>

\* LIFCell.reset()
LIFReset ==
    /\ LIFResetState
    /\ lif_rest' = 0
    /\ UNCHANGED <<lif_cfg, lif_theta, lif_raw, lif_clock>>

----------------------------------------------------------------------------
(* BernoulliCell.  Inputs are in tenths, probabilities and uniform draws   *)
(* in millionths, frequencies in centi-Hz.                                 *)

\* __init__ default target_freq=63.75 (Hz)
TargetFreqDefault == 6375
\* target_freq <= 0 selects the unconstrained sampler
BernConfigs == [target_freq : {TargetFreqDefault, 0}]
\* raw input values: 0, 1.0 and 2.0
BernInputVals == {0, 10, 20}
\* values of a uniform draw in [0, 1): 0.03, 0.1 and 0.999999
EpsVals == {30000, 100000, 999999}

\* _sample_constrained_bernoulli: pspike = data * (dt/1000.) * fmax;
\* s_t = (eps < pspike)
SampleConstrainedBernoulli(eps, data, dt, fmax) ==
    LET pspike == [i \in DOMAIN data |-> data[i] * dt * fmax]
    IN [i \in DOMAIN data |-> IF eps[i] < pspike[i] THEN 1 ELSE 0]

\* _sample_bernoulli: random.bernoulli(dkey, p=data), a uniform draw below p
SampleBernoulli(eps, data) ==
    [i \in DOMAIN data |-> IF eps[i] < data[i] * 100000 THEN 1 ELSE 0]

\* BernoulliCell.__init__
BernInit ==
    /\ bern_cfg \in BernConfigs
    /\ bern_inputs = BZeros
    /\ bern_outputs = BZeros
    /\ bern_tols = BZeros
    /\ bern_eps = BZeros
    /\ bern_clock = 0

\* the wiring writes the input compartment
BernSetInputs ==
    /\ \E inp \in [BUnits -> BernInputVals] : bern_inputs' = inp
    /\ UNCHANGED <<bern_cfg, bern_outputs, bern_tols, bern_eps, bern_clock>>

\* BernoulliCell.advance_state with t = bern_clock; eps is the uniform draw
\* made with the split key
BernAdvance ==
    /\ bern_clock < BernMaxT
    /\ \E eps \in [BUnits -> EpsVals] :
         LET outputs == IF bern_cfg.target_freq > 0
                        THEN SampleConstrainedBernoulli(eps, bern_inputs, Dt,
                                                        bern_cfg.target_freq)
                        ELSE SampleBernoulli(eps, bern_inputs)
         IN /\ bern_outputs' = outputs
            /\ bern_tols' = UpdateTimes(bern_clock, outputs, bern_tols)
            /\ bern_eps' = eps
    /\ bern_clock' = bern_clock + Dt
    /\ UNCHANGED <<bern_cfg, bern_inputs>>

\* BernoulliCell.reset
BernReset ==
    /\ bern_inputs' = BZeros
    /\ bern_outputs' = BZeros
    /\ bern_tols' = BZeros
    /\ UNCHANGED <<bern_cfg, bern_eps, bern_clock>>

----------------------------------------------------------------------------
(* ExpKernel.  Times are in ms, the EPSP in 1e-4. *)

\* window intervals nu (ms); __init__: win_len = int(nu/dt) + 1
KernConfigs == [nu : {0, 1, 2}]
WinLen(nu) == (nu \div Dt) + 1

\* exp(-1/tau_w) for the default tau_w=500. (ms), in 1e-4
KernDecayPerMs == 9980
KernOne == 10000

\* exp(-lag/tau_w) for a lag of whole milliseconds
RECURSIVE ExpKern(_)
ExpKern(lag) ==
    IF lag <= 0 THEN KernOne ELSE (ExpKern(lag - 1) * KernDecayPerMs) \div KernOne

\* jnp.roll(tf, shift=-1, axis=0)
RollLeft(tf) == Tail(tf) \o <<Head(tf)>>

RECURSIVE SumSlots(_, _, _, _)
\* sum over the slots lo..hi of exp(-(t - _tf)/tau_w) * mask, for unit i
SumSlots(tf, t, i, slots) ==
    IF slots = {} THEN 0
    ELSE LET k == CHOOSE x \in slots : TRUE
         IN (IF tf[k][i] > 0 THEN ExpKern(t - tf[k][i]) ELSE 0)
            + SumSlots(tf, t, i, slots \ {k})

ApplyKernelNoRoll(tf_curr, s, t, krn_start, krn_end) ==
    LET idx_sub == Len(tf_curr)
        tf_new  == [i \in DOMAIN s |-> s[i] * t]
        tf      == [tf_curr EXCEPT ![idx_sub] = tf_new]
        slots   == (krn_start + 1)..krn_end
    IN [tf |-> tf,
        epsp |-> [i \in DOMAIN s |-> SumSlots(tf, t, i, slots)]]

\* apply_kernel; krn_start and krn_end are the (0-based, end-exclusive)
\* limits of the slice tf[krn_start:krn_end]
ApplyKernel(tf_curr, s, t, krn_start, krn_end) ==
    LET idx_sub == Len(tf_curr)
        tf_new  == [i \in DOMAIN s |-> s[i] * t]
        tf      == RollLeft([tf_curr EXCEPT ![idx_sub] = tf_new])
        slots   == (krn_start + 1)..krn_end
    IN [tf |-> tf,
        epsp |-> [i \in DOMAIN s |-> SumSlots(tf, t, i, slots)]]

\* ExpKernel.__init__
KernInit ==
    /\ kern_cfg \in KernConfigs
    /\ kern_inputs = KZeros
    /\ kern_epsp = KZeros
    /\ kern_tf = [k \in 1..WinLen(kern_cfg.nu) |-> KZeros]
    /\ kern_clock = 0
    /\ kern_spk = [i \in KUnits |-> [n |-> 0, t0 |-> 0]]

\* the wiring writes the input compartment with the spikes of a cell
KernSetInputs ==
    /\ \E inp \in [KUnits -> {0, 1}] : kern_inputs' = inp
    /\ UNCHANGED <<kern_cfg, kern_tf, kern_epsp, kern_clock, kern_spk>>

\* ExpKernel.advance_state with t = kern_clock
KernAdvance ==
    /\ kern_clock < KernMaxT
    /\ LET win_len == WinLen(kern_cfg.nu)
           r == ApplyKernel(kern_tf, kern_inputs, kern_clock, 0, win_len - 1)
       IN /\ kern_tf' = r.tf
          /\ kern_epsp' = r.epsp
    /\ kern_spk' = [i \in KUnits |->
                      IF kern_inputs[i] = 1
                      THEN [n  |-> IF kern_spk[i].n < 2 THEN kern_spk[i].n + 1 ELSE 2,
                            t0 |-> IF kern_spk[i].n = 0 THEN kern_clock
                                   ELSE kern_spk[i].t0]
                      ELSE kern_spk[i]]
    /\ kern_clock' = kern_clock + Dt
    /\ UNCHANGED <<kern_cfg, kern_inputs>>

\* ExpKernel.reset
KernReset ==
    /\ kern_inputs' = KZeros
    /\ kern_epsp' = KZeros
    /\ kern_tf' = [k \in 1..WinLen(kern_cfg.nu) |-> KZeros]
    /\ kern_spk' = [i \in KUnits |-> [n |-> 0, t0 |-> 0]]
    /\ UNCHANGED <<kern_cfg, kern_clock>>

----------------------------------------------------------------------------
(* ENode and SCable.  The batch size is 1: a value of the node is a vector *)
(* over Dims, of plain integers; an absent value (Python's None) is the    *)
(* empty tuple, and the scalar loss L is a 1-tuple.  error_type is "mse",  *)
(* act_fx is "identity", ex_scale is 1.0, and the statistics "weights" and *)
(* "avg_scalar" stay None (nothing in the node sets them).                 *)

\* dim of the node
EDim == 2
\* most cables wired into the node
MaxCables == 3

Dims == 1..EDim
None == << >>

\* the names that have a slot in stat, and so a tick
VarNames == {"pred_mu", "pred_targ", "L", "z", "dz", "phiz", "mask"}
\* cables by destination variable and coefficient (SCable: coeff=1.0);
\* "dz_td" is a destination the error node has no slot for
CableKinds ==
    { [out_var |-> "pred_mu",   coeff |-> 1],
      [out_var |-> "pred_targ", coeff |-> 1],
      [out_var |-> "pred_targ", coeff |-> 2],
      [out_var |-> "dz_td",     coeff |-> 1] }
\* values a source node can hold when a cable reads it
SrcVals == { [d \in Dims |-> 1], [d \in Dims |-> d] }
\* masks the graph can set on the node
MaskVals == { [d \in Dims |-> 1], [d \in Dims |-> IF d = 1 THEN 1 ELSE 0] }

VAdd(a, b) == [d \in Dims |-> a[d] + b[d]]
VSub(a, b) == [d \in Dims |-> a[d] - b[d]]
VMul(a, b) == [d \in Dims |-> a[d] * b[d]]
VZero == [d \in Dims |-> 0]

RECURSIVE SumSquares(_, _)
\* tf.reduce_sum(e * e, axis=1) followed by tf.reduce_sum, for one batch row
SumSquares(e, d) == IF d = 0 THEN 0 ELSE e[d] * e[d] + SumSquares(e, d - 1)

\* transform_utils.decide_fun("identity"): the activation fx
Fx(z) == z

\* SCable.propagate: out_value = inp_value * coeff
Propagate(cable, inp_value) == [d \in Dims |-> inp_value[d] * cable.coeff]

\* Node.build_tick: every tick back to zero
BuildTick == [n \in VarNames |-> 0]

\* stat after ENode.__init__
StatInit ==
    [pred_mu |-> None, pred_targ |-> None, L |-> None, z |-> None,
     dz |-> None, phiz |-> None, mask |-> None]

RECURSIVE AccumulateStale(_, _, _, _, _)
AccumulateStale(stat, tick, cables, src, j) ==
    IF j > Len(cables) THEN [stat |-> stat, tick |-> tick, raised |-> FALSE]
    ELSE LET dest_var_j == cables[j].out_var
             dz_j == Propagate(cables[j], src[j])
         IN IF dest_var_j \notin VarNames
            THEN [stat |-> stat, tick |-> tick, raised |-> TRUE]
            ELSE LET var_j == IF stat[dest_var_j] # None
                              THEN VAdd(stat[dest_var_j], dz_j)
                              ELSE dz_j
                 IN AccumulateStale([stat EXCEPT ![dest_var_j] = var_j],
                                    [tick EXCEPT ![dest_var_j] = @ + 1],
                                    cables, src, j + 1)

RECURSIVE Accumulate(_, _, _, _, _)
\* the loop of ENode.step over the incoming cables, from cable j on; a
\* destination without a tick (tick.get gives None) makes "tick_j > 0" raise
Accumulate(stat, tick, cables, src, j) ==
    IF j > Len(cables) THEN [stat |-> stat, tick |-> tick, raised |-> FALSE]
    ELSE LET dest_var_j == cables[j].out_var
             dz_j == Propagate(cables[j], src[j])
         IN IF dest_var_j \notin VarNames
            THEN [stat |-> stat, tick |-> tick, raised |-> TRUE]
            ELSE LET var_j == IF tick[dest_var_j] > 0
                              THEN VAdd(stat[dest_var_j], dz_j)
                              ELSE dz_j
                 IN Accumulate([stat EXCEPT ![dest_var_j] = var_j],
                               [tick EXCEPT ![dest_var_j] = @ + 1],
                               cables, src, j + 1)

\* the end of ENode.step with phi(z) left as it was
StepFinishKeepPhi(stat, dz, z) ==
    LET st1   == [stat EXCEPT !.dz = dz, !.z = z]
        bmask == st1.mask
        st2   == IF bmask # None
                 THEN [st1 EXCEPT
                         !.dz   = IF @ # None THEN VMul(@, bmask) ELSE @,
                         !.z    = IF @ # None THEN VMul(@, bmask) ELSE @]
                 ELSE st1
    IN [kind |-> "done", stat |-> st2, tick |-> BuildTick]

\* the end of ENode.step: phi(z), the writes of dz, z and phi(z), the mask,
\* build_tick
StepFinish(stat, dz, z) ==
    LET phi_z == Fx(z)
        st1   == [stat EXCEPT !.dz = dz, !.z = z, !.phiz = phi_z]
        bmask == st1.mask
        st2   == IF bmask # None
                 THEN [st1 EXCEPT
                         !.dz   = IF @ # None THEN VMul(@, bmask) ELSE @,
                         !.z    = IF @ # None THEN VMul(@, bmask) ELSE @,
                         !.phiz = IF @ # None THEN VMul(@, bmask) ELSE @]
                 ELSE st1
    IN [kind |-> "done", stat |-> st2, tick |-> BuildTick]

\* z = tf.matmul(z, Prec): Prec is in units of 1/4000, the product is
\* rounded to the nearest integer
MatMulPrec(z, Prec) ==
    [c \in Dims |->
        LET Col[r \in 0..EDim] ==
                IF r = 0 THEN 0 ELSE Col[r - 1] + z[r] * Prec[r][c]
        IN (2 * Col[EDim] + 4000) \div 8000]

\* the "mse" branch of ENode.step, from the masked pred_mu and pred_targ
StepError(stat, pred_mu, pred_targ, Prec) ==
    LET dz == VSub(pred_targ, pred_mu)
        e  == dz
        L  == SumSquares(e, EDim)
        z  == IF Prec # None THEN MatMulPrec(dz, Prec) ELSE dz
    IN StepFinish([stat EXCEPT !.L = <<L>>], dz, z)

StepCoreZeroFill(stat, tick, cables, src, Prec) ==
    LET acc == Accumulate(stat, tick, cables, src, 1)
        st  == acc.stat
        bmask == st.mask
        pred_mu   == IF bmask # None /\ st.pred_mu # None
                     THEN VMul(st.pred_mu, bmask) ELSE st.pred_mu
        pred_targ == IF bmask # None /\ st.pred_targ # None
                     THEN VMul(st.pred_targ, bmask) ELSE st.pred_targ
    IN IF acc.raised
       THEN [kind |-> "raised", stat |-> st, tick |-> acc.tick]
       ELSE StepError(st, IF pred_mu = None THEN VZero ELSE pred_mu,
                      IF pred_targ = None THEN VZero ELSE pred_targ, Prec)

\* ENode.step when the node is not clamped and the core is not skipped
StepCore(stat, tick, cables, src, Prec) ==
    LET acc == Accumulate(stat, tick, cables, src, 1)
        st  == acc.stat
        bmask == st.mask
        pred_mu   == IF bmask # None /\ st.pred_mu # None
                     THEN VMul(st.pred_mu, bmask) ELSE st.pred_mu
        pred_targ == IF bmask # None /\ st.pred_targ # None
                     THEN VMul(st.pred_targ, bmask) ELSE st.pred_targ
    IN IF acc.raised
       THEN [kind |-> "raised", stat |-> st, tick |-> acc.tick]
       ELSE IF pred_mu = None \/ pred_targ = None
       THEN [kind |-> "exit", stat |-> st, tick |-> acc.tick]
       ELSE StepError(st, pred_mu, pred_targ, Prec)

CheckCorrectnessNoCount(cables) ==
    ~ \E j \in 1..Len(cables) :
         cables[j].out_var # "pred_mu" /\ cables[j].out_var # "pred_targ"

\* ENode.check_correctness
CheckCorrectness(cables) ==
    LET miswired == \E j \in 1..Len(cables) :
                       cables[j].out_var # "pred_mu" /\ cables[j].out_var # "pred_targ"
        n_ins == Len(cables)
    IN ~miswired /\ n_ins = 2

\* ENode.__init__ without a precision kernel
ENodeInit ==
    /\ en_cables = << >>
    /\ en_phase = "setup"
    /\ en_ok = "unchecked"
    /\ en_stat = StatInit
    /\ en_tick = BuildTick
    /\ en_clamped = FALSE
    /\ en_halted = FALSE
    /\ en_Sigma = None
    /\ en_Prec = None
    /\ en_chol = None
    /\ en_ops = 0
    /\ en_last = [kind |-> "none", src |-> << >>]

precVars == <<en_Sigma, en_Prec, en_chol, en_ops>>

\* the graph wires one more cable into the node (setup only)
ENodeWire ==
    /\ en_phase = "setup"
    /\ Len(en_cables) < MaxCables
    /\ \E c \in CableKinds : en_cables' = Append(en_cables, c)
    /\ en_ok' = "unchecked"
    /\ UNCHANGED <<en_phase, en_stat, en_tick, en_clamped, en_halted, en_last,
                   precVars>>

\* the graph calls check_correctness
ENodeCheck ==
    /\ ~en_halted
    /\ en_ok' = IF CheckCorrectness(en_cables) THEN "true" ELSE "false"
    /\ UNCHANGED <<en_cables, en_phase, en_stat, en_tick, en_clamped,
                   en_halted, en_last, precVars>>

\* the graph is complete: the simulation starts
ENodeStart ==
    /\ en_phase = "setup"
    /\ en_phase' = "run"
    /\ UNCHANGED <<en_cables, en_ok, en_stat, en_tick, en_clamped, en_halted,
                   en_last, precVars>>

\* Node.clamp on z: the value is set and the node is clamped
ENodeClamp ==
    /\ en_phase = "run" /\ ~en_halted
    /\ \E val \in SrcVals : en_stat' = [en_stat EXCEPT !.z = val]
    /\ en_clamped' = TRUE
    /\ en_last' = [kind |-> "set", src |-> << >>]
    /\ UNCHANGED <<en_cables, en_phase, en_ok, en_tick, en_halted, precVars>>

\* the graph sets the mask of the node
ENodeSetMask ==
    /\ en_phase = "run" /\ ~en_halted
    /\ \E m \in MaskVals : en_stat' = [en_stat EXCEPT !.mask = m]
    /\ en_last' = [kind |-> "set", src |-> << >>]
    /\ UNCHANGED <<en_cables, en_phase, en_ok, en_tick, en_clamped, en_halted,
                   precVars>>

\* ENode.clear: Node.clear (ticks rebuilt, clamp released, z, dz, phi(z) and
\* mask dropped), then pred_mu, pred_targ and L dropped
ENodeClear ==
    /\ en_phase = "run" /\ ~en_halted
    /\ en_stat' = StatInit
    /\ en_tick' = BuildTick
    /\ en_clamped' = FALSE
    /\ en_last' = [kind |-> "none", src |-> << >>]
    /\ UNCHANGED <<en_cables, en_phase, en_ok, en_halted, precVars>>

\* ENode.step(skip_core_calc); src are the values the cables read
ENodeStep ==
    /\ en_phase = "run" /\ ~en_halted
    /\ \E skip_core_calc \in BOOLEAN :
       \E src \in [1..Len(en_cables) -> SrcVals] :
          IF en_clamped = FALSE /\ skip_core_calc = FALSE
          THEN LET r == StepCore(en_stat, en_tick, en_cables, src, en_Prec)
               IN /\ en_stat' = r.stat
                  /\ en_tick' = r.tick
                  /\ en_halted' = (r.kind # "done")
                  /\ en_last' = [kind |-> IF r.kind = "done" THEN "core" ELSE r.kind,
                                 src |-> src]
          ELSE LET r == StepFinish(en_stat, None, en_stat.z)
               IN /\ en_stat' = r.stat
                  /\ en_tick' = r.tick
                  /\ en_halted' = FALSE
                  /\ en_last' = [kind |-> "skipped", src |-> << >>]
    /\ UNCHANGED <<en_cables, en_phase, en_ok, en_clamped, precVars>>

----------------------------------------------------------------------------
(* ENode precision.  Matrices are tuples of rows over Dims, with entries   *)
(* in units of 1/4000 (the stability factor eps = 0.00025 is 1).           *)

\* most compute_precision calls and covariance updates in a run
MaxPrecOps == 4

\* eps = 0.00025, and 1.0, in units of 1/4000
PrecEps == 1
PrecOne == 4000

Max(a, b) == IF a >= b THEN a ELSE b

RECURSIVE ISqrtBetween(_, _, _)
\* the largest r in lo..hi with r * r <= n
ISqrtBetween(n, lo, hi) ==
    IF lo >= hi THEN lo
    ELSE LET mid == (lo + hi + 1) \div 2
         IN IF mid * mid <= n THEN ISqrtBetween(n, mid, hi)
            ELSE ISqrtBetween(n, lo, mid - 1)
\* floor of the square root, for 0 <= n < 2^31
ISqrt(n) == ISqrtBetween(n, 0, 46340)

Symmetric(A) == \A i, j \in Dims : A[i][j] = A[j][i]

\* the covariance of ENode.__init__ with a precision kernel: the identity
\* plus uniform(-prec_sigma, prec_sigma) off the diagonal, each entry drawn
\* on its own; off is <<draw above the diagonal, draw below it>>
SigmaInit(off) ==
    [i \in Dims |-> [j \in Dims |->
        IF i = j THEN PrecOne ELSE IF i < j THEN off[1] ELSE off[2]]]
\* draws of the constructor: prec_sigma = 0, and two draws for prec_sigma = 0.5
SigmaDraws == { <<0, 0>>, <<1000, 1000>>, <<1000, -1000>> }

CovRebuiltNoFloor(Sigma) ==
    [i \in Dims |-> [j \in Dims |-> Sigma[i][j] + PrecEps]]

\* compute_precision, the matrix that is factored: diagonal floored at 1.0,
\* off-diagonal kept, eps added to every entry
CovRebuilt(Sigma) ==
    [i \in Dims |-> [j \in Dims |->
        (IF i = j THEN Max(PrecOne, Sigma[i][j]) ELSE Sigma[i][j]) + PrecEps]]

RECURSIVE CholL(_, _, _), CholDot(_, _, _, _)
\* sum over m in 1..k of L[i][m] * L[j][m]
CholDot(A, i, j, k) ==
    IF k = 0 THEN 0
    ELSE CholDot(A, i, j, k - 1) + (CholL(A, i, k) * CholL(A, j, k)) \div PrecOne
\* the pivot of column j: A[j][j] - sum of L[j][m]^2 over m < j
CholPivot(A, j) == A[j][j] - CholDot(A, j, j, j - 1)
\* tf.linalg.cholesky: entry (i, j), j <= i, of the lower factor; only the
\* lower triangle of A is read
CholL(A, i, j) ==
    IF i = j THEN ISqrt(Max(CholPivot(A, j), 0) * PrecOne)
    ELSE ((A[i][j] - CholDot(A, i, j, j - 1)) * PrecOne) \div CholL(A, j, j)
\* the factorisation succeeds iff every pivot is positive
CholOK(A) == \A j \in Dims : CholPivot(A, j) > 0

RECURSIVE LInv(_, _, _), LInvDot(_, _, _, _)
\* sum over k in j..m of L[i][k] * X[k][j]
LInvDot(A, i, j, m) ==
    IF m < j THEN 0
    ELSE LInvDot(A, i, j, m - 1) + (CholL(A, i, m) * LInv(A, m, j)) \div PrecOne
\* tf.linalg.triangular_solve(R, I, lower=True): entry (i, j) of R^-1
LInv(A, i, j) ==
    IF i < j THEN 0
    ELSE IF i = j THEN (PrecOne * PrecOne) \div CholL(A, i, i)
    ELSE ((0 - LInvDot(A, i, j, i - 1)) * PrecOne) \div CholL(A, i, i)
\* prec_l = transpose(triangular_solve(R, I))
PrecOf(A) == [i \in Dims |-> [j \in Dims |-> LInv(A, j, i)]]

\* calc_update (update_radius=-1, use_mod_factor False): B = e^T e,
\* dW = (B - Prec) * 0.5, delta = -dW
CalcUpdate(e, Prec) ==
    [i \in Dims |-> [j \in Dims |->
        0 - ((e[i] * e[j] * PrecOne - Prec[i][j]) \div 2)]]

\* ENode.__init__ with precis_kernel=(init_type, prec_sigma); the node is
\* wired with a prediction and a target cable and the simulation has started
ENodePrecInit ==
    /\ en_cables = << [out_var |-> "pred_mu",   coeff |-> 1],
                      [out_var |-> "pred_targ", coeff |-> 2] >>
    /\ en_phase = "run"
    /\ en_ok = "unchecked"
    /\ en_stat = StatInit
    /\ en_tick = BuildTick
    /\ en_clamped = FALSE
    /\ en_halted = FALSE
    /\ \E off \in SigmaDraws : en_Sigma = SigmaInit(off)
    /\ en_Prec = None
    /\ en_chol = None
    /\ en_ops = 0
    /\ en_last = [kind |-> "none", src |-> << >>]

\* ENode.compute_precision(rebuild_cov); a failed factorisation raises
ENodeComputePrecision ==
    /\ ~en_halted /\ en_Sigma # None
    /\ en_ops < MaxPrecOps
    /\ \E rebuild_cov \in BOOLEAN :
         LET cov_l == CovRebuilt(en_Sigma)
         IN /\ en_Sigma' = IF rebuild_cov THEN cov_l ELSE en_Sigma
            /\ en_chol' = cov_l
            /\ IF CholOK(cov_l)
               THEN en_Prec' = PrecOf(cov_l) /\ en_halted' = FALSE
               ELSE en_Prec' = en_Prec /\ en_halted' = TRUE
            /\ en_last' = [kind |-> "prec", src |-> <<rebuild_cov>>]
    /\ en_ops' = en_ops + 1
    /\ UNCHANGED <<en_cables, en_phase, en_ok, en_stat, en_tick, en_clamped>>

\* the caller applies the delta of calc_update to Sigma by gradient descent
\* with learning rate 1: Sigma <- Sigma - delta
ENodeUpdate ==
    /\ ~en_halted /\ en_Sigma # None /\ en_Prec # None
    /\ en_stat.phiz # None
    /\ en_ops < MaxPrecOps
    /\ LET delta == CalcUpdate(en_stat.phiz, en_Prec)
       IN en_Sigma' = [i \in Dims |-> [j \in Dims |->
                          en_Sigma[i][j] - delta[i][j]]]
    /\ en_ops' = en_ops + 1
    /\ en_last' = [kind |-> "update", src |-> << >>]
    /\ UNCHANGED <<en_cables, en_phase, en_ok, en_stat, en_tick, en_clamped,
                   en_halted, en_Prec, en_chol>>

----------------------------------------------------------------------------
(* RewardErrorCell.  batch_size is 1, so a slot of shape (1, k) is a row of *)
(* k values.  The values are exact rationals <<num, den>> with den > 0, in  *)
(* lowest terms.  Compartment.set stores the array it is handed.            *)

\* n_units of the RewardErrorCell
RewUnits == 2
\* most advance_state and evolve calls in a run
RewMaxOps == 3

\* default of ema_window_len
EmaWindowLenDefault == 10

Abs(x) == IF x < 0 THEN -x ELSE x

RECURSIVE Gcd(_, _)
Gcd(a, b) == IF b = 0 THEN a ELSE Gcd(b, a % b)

\* the rational n/d (d > 0) in lowest terms
Rat(n, d) == LET g == Gcd(Abs(n), d) IN <<n \div g, d \div g>>
RInt(n) == <<n, 1>>
RAdd(a, b) == Rat(a[1] * b[2] + b[1] * a[2], a[2] * b[2])
RSub(a, b) == Rat(a[1] * b[2] - b[1] * a[2], a[2] * b[2])
RMul(a, b) == Rat(a[1] * b[1], a[2] * b[2])
\* a / b for b > 0
RDiv(a, b) == Rat(a[1] * b[2], a[2] * b[1])
RAbs(a) == <<Abs(a[1]), a[2]>>
RLeq(a, b) == a[1] * b[2] <= b[1] * a[2]
RLess(a, b) == a[1] * b[2] < b[1] * a[2]

\* element i of a row under numpy broadcasting: a row of one column is
\* repeated
At(a, i) == IF Len(a) = 1 THEN a[1] ELSE a[i]
BLen(a, b) == IF Len(a) >= Len(b) THEN Len(a) ELSE Len(b)
\* a + b, a - b, a / b elementwise with broadcasting
BAdd(a, b) == [i \in 1..BLen(a, b) |-> RAdd(At(a, i), At(b, i))]
BSub(a, b) == [i \in 1..BLen(a, b) |-> RSub(At(a, i), At(b, i))]
BDiv(a, b) == [i \in 1..BLen(a, b) |-> RDiv(At(a, i), At(b, i))]
\* a * c for a scalar c
SMul(a, c) == [i \in 1..Len(a) |-> RMul(a[i], c)]
\* a + c for a scalar c
SAdd(a, c) == [i \in 1..Len(a) |-> RAdd(a[i], c)]

\* jnp.zeros((1, k))
RZeros(k) == [i \in 1..k |-> RInt(0)]

\* constructor arguments: alpha in (0, 1), ema_window_len
RewConfigs ==
    { [alpha |-> Rat(1, 2), ema_window_len |-> EmaWindowLenDefault],
      [alpha |-> Rat(1, 4), ema_window_len |-> 2] }

\* reward values the external graph writes
RewardVals == { RInt(0), RInt(1) }

\* _advance_state with the rpe taken from the updated predictor
RewAdvanceStatePost(alpha, mu, rpe, reward, n_ep_steps, accum_reward, Ns) ==
    LET mu2 == BAdd(SMul(mu, RSub(RInt(1), alpha)), SMul(reward, alpha))
    IN [mu |-> mu2,
        rpe |-> BSub(reward, mu2),
        n_ep_steps |-> SAdd(n_ep_steps, RInt(1)),
        accum_reward |-> BAdd(accum_reward, reward),
        Ns |-> Ns]

\* RewardErrorCell._advance_state
RewAdvanceState(alpha, mu, rpe, reward, n_ep_steps, accum_reward, Ns) ==
    LET accum_reward2 == BAdd(accum_reward, reward)
        rpe2 == BSub(reward, mu)
        mu2 == BAdd(SMul(mu, RSub(RInt(1), alpha)), SMul(reward, alpha))
        n_ep_steps2 == SAdd(n_ep_steps, RInt(1))
    IN [mu |-> mu2, rpe |-> rpe2, n_ep_steps |-> n_ep_steps2,
        accum_reward |-> accum_reward2, Ns |-> Ns]

\* RewardErrorCell._evolve: returns mu, rpe and accum_reward only
RewEvolveFn(ema_window_len, n_ep_steps, mu, accum_reward, reward) ==
    LET accum_reward2 == BAdd(accum_reward, reward)
        n_ep_steps2 == SAdd(n_ep_steps, RInt(1))
        r == BDiv(accum_reward2, n_ep_steps2)
        w == Rat(1, ema_window_len)
        mu2 == BAdd(SMul(mu, RSub(RInt(1), w)), SMul(r, w))
        rpe2 == BSub(r, mu2)
    IN [mu |-> mu2, rpe |-> rpe2, accum_reward |-> accum_reward2]

\* RewardErrorCell._reset
RewResetFn(n_units) ==
    LET restVals == RZeros(n_units)
        resetMask == RZeros(1)
    IN [mu |-> restVals, rpe |-> restVals, accum_reward |-> resetMask,
        reward |-> resetMask, n_ep_steps |-> resetMask, Ns |-> resetMask]

\* RewardErrorCell.__init__
RewInit ==
    /\ rew_cfg \in RewConfigs
    /\ rew_mu = RZeros(RewUnits)
    /\ rew_reward = RZeros(RewUnits)
    /\ rew_rpe = RZeros(RewUnits)
    /\ rew_accum = RZeros(RewUnits)
    /\ rew_Ns = RZeros(1)
    /\ rew_n = RZeros(1)
    /\ rew_ops = 0
    /\ rew_last = "none"
    /\ rew_run = 0

\* the external graph writes the input slot 'reward'
RewSetReward ==
    /\ \E r \in [1..RewUnits -> RewardVals] :
          /\ r # rew_reward
          /\ rew_reward' = r
    /\ rew_last' = "set"
    /\ rew_run' = 0
    /\ UNCHANGED <<rew_cfg, rew_mu, rew_rpe, rew_accum, rew_Ns, rew_n, rew_ops>>

\* RewardErrorCell.advance_state
RewAdvance ==
    /\ rew_ops < RewMaxOps
    /\ LET r == RewAdvanceState(rew_cfg.alpha, rew_mu, rew_rpe, rew_reward,
                                rew_n, rew_accum, rew_Ns)
       IN /\ rew_mu' = r.mu
          /\ rew_rpe' = r.rpe
          /\ rew_n' = r.n_ep_steps
          /\ rew_accum' = r.accum_reward
          /\ rew_Ns' = r.Ns
    /\ rew_ops' = rew_ops + 1
    /\ rew_last' = "advance"
    /\ rew_run' = rew_run + 1
    /\ UNCHANGED <<rew_cfg, rew_reward>>

\* RewardErrorCell.evolve
RewEvolve ==
    /\ rew_ops < RewMaxOps
    /\ LET r == RewEvolveFn(rew_cfg.ema_window_len, rew_n, rew_mu, rew_accum,
                            rew_reward)
       IN /\ rew_mu' = r.mu
          /\ rew_rpe' = r.rpe
          /\ rew_accum' = r.accum_reward
    /\ rew_ops' = rew_ops + 1
    /\ rew_last' = "evolve"
    /\ rew_run' = 0
    /\ UNCHANGED <<rew_cfg, rew_reward, rew_Ns, rew_n>>

\* RewardErrorCell.reset
RewReset ==
    /\ LET r == RewResetFn(RewUnits)
       IN /\ rew_mu' = r.mu
          /\ rew_rpe' = r.rpe
          /\ rew_accum' = r.accum_reward
          /\ rew_reward' = r.reward
          /\ rew_n' = r.n_ep_steps
          /\ rew_Ns' = r.Ns
    /\ rew_last' = "reset"
    /\ rew_run' = 0
    /\ UNCHANGED <<rew_cfg, rew_ops>>

----------------------------------------------------------------------------
(* LIFCell property setters.  A value is seen by its shape <<rows, cols>>; *)
(* None is a value a setter accepts.                                       *)

\* the compartment names
SlotNames == {"j", "s", "tols", "v", "rfr", "thrTheta"}

\* the shape every compartment has after construction
SlotShape == <<1, NUnits>>

\* shapes of the values handed to a setter
ShapeVals ==
    {None} \cup { <<r, c>> : r \in {1, 2}, c \in {NUnits, NUnits + 1} }

\* the check of the setters current, spikes, timeOfLastSpike, voltage and
\* refract; threshold_theta has none
SetterRaises(slot, val) ==
    /\ slot # "thrTheta"
    /\ val # None
    /\ val[2] # NUnits

\* LIFCell.__init__: threshold_theta, then reset()
SlotsInit ==
    /\ slot_shape = [n \in SlotNames |-> SlotShape]
    /\ slot_last = [slot |-> "none"]

\* an assignment through a property setter
LIFSetSlot ==
    \E slot \in SlotNames : \E val \in ShapeVals :
       /\ slot_shape' = IF SetterRaises(slot, val) THEN slot_shape
                        ELSE [slot_shape EXCEPT ![slot] = val]
       /\ slot_last' = [slot |-> slot, shape |-> val,
                        raised |-> SetterRaises(slot, val)]

\* LIFCell.reset: v, rfr, j, tols and s are assigned arrays of shape
\* (1, n_units) through their setters
LIFSlotsReset ==
    /\ slot_shape' = [n \in SlotNames |->
                         IF n = "thrTheta" THEN slot_shape[n] ELSE SlotShape]
    /\ slot_last' = [slot |-> "none"]

----------------------------------------------------------------------------
(* Constructed values of the units a specification does not run *)

LIFIdle ==
    /\ LIFInit
    /\ lif_cfg = [one_spike |-> TRUE, v_reset |-> VResetDefault,
                  tau_theta |-> "slow", refract_T |-> RefractTDefault]

BernIdle ==
    /\ BernInit
    /\ bern_cfg = [target_freq |-> TargetFreqDefault]

KernIdle ==
    /\ KernInit
    /\ kern_cfg = [nu |-> 2]

ENodeIdle == ENodeInit

RewIdle ==
    /\ RewInit
    /\ rew_cfg = [alpha |-> Rat(1, 2), ema_window_len |-> EmaWindowLenDefault]

SlotsIdle == SlotsInit

----------------------------------------------------------------------------
(* Specifications: one per unit, and one for the two spiking cells *)

InitLIF   == sched = "lif"   /\ LIFInit /\ BernIdle /\ KernIdle /\ ENodeIdle /\ RewIdle /\ SlotsIdle
InitBern  == sched = "bern"  /\ LIFIdle /\ BernInit /\ KernIdle /\ ENodeIdle /\ RewIdle /\ SlotsIdle
InitKern  == sched = "kern"  /\ LIFIdle /\ BernIdle /\ KernInit /\ ENodeIdle /\ RewIdle /\ SlotsIdle
InitENode == sched = "enode" /\ LIFIdle /\ BernIdle /\ KernIdle /\ ENodeInit /\ RewIdle /\ SlotsIdle
InitRew   == sched = "rew"   /\ LIFIdle /\ BernIdle /\ KernIdle /\ ENodeIdle /\ RewInit /\ SlotsIdle
InitSlots == sched = "slots" /\ LIFIdle /\ BernIdle /\ KernIdle /\ ENodeIdle /\ RewIdle /\ SlotsInit
InitPrec  == sched = "prec"  /\ LIFIdle /\ BernIdle /\ KernIdle /\ ENodePrecInit /\ RewIdle /\ SlotsIdle

OnlyLIF   == sched = "lif"   /\ UNCHANGED <<sched, bernVars, kernVars, enVars, rewVars, slotVars>>
OnlyBern  == sched = "bern"  /\ UNCHANGED <<sched, lifVars, kernVars, enVars, rewVars, slotVars>>
OnlyKern  == sched = "kern"  /\ UNCHANGED <<sched, lifVars, bernVars, enVars, rewVars, slotVars>>
OnlyENode == sched = "enode" /\ UNCHANGED <<sched, lifVars, bernVars, kernVars, rewVars, slotVars>>
OnlyPrec  == sched = "prec"  /\ UNCHANGED <<sched, lifVars, bernVars, kernVars, rewVars, slotVars>>
OnlyRew   == sched = "rew"   /\ UNCHANGED <<sched, lifVars, bernVars, kernVars, enVars, slotVars>>
OnlySlots == sched = "slots" /\ UNCHANGED <<sched, lifVars, bernVars, kernVars, enVars, rewVars>>

NextLIF ==
    \/ LIFSetCurrent /\ OnlyLIF
    \/ LIFAdvance /\ OnlyLIF
    \/ LIFReset /\ OnlyLIF

NextBern ==
    \/ BernSetInputs /\ OnlyBern
    \/ BernAdvance /\ OnlyBern
    \/ BernReset /\ OnlyBern

NextKern ==
    \/ KernSetInputs /\ OnlyKern
    \/ KernAdvance /\ OnlyKern
    \/ KernReset /\ OnlyKern

NextENode ==
    \/ ENodeWire /\ OnlyENode
    \/ ENodeCheck /\ OnlyENode
    \/ ENodeStart /\ OnlyENode
    \/ ENodeClamp /\ OnlyENode
    \/ ENodeSetMask /\ OnlyENode
    \/ ENodeClear /\ OnlyENode
    \/ ENodeStep /\ OnlyENode

NextPrec ==
    \/ ENodeStep /\ OnlyPrec
    \/ ENodeComputePrecision /\ OnlyPrec
    \/ ENodeUpdate /\ OnlyPrec

NextRew ==
    \/ RewSetReward /\ OnlyRew
    \/ RewAdvance /\ OnlyRew
    \/ RewEvolve /\ OnlyRew
    \/ RewReset /\ OnlyRew

NextSlots ==
    \/ LIFSetSlot /\ OnlySlots
    \/ LIFSlotsReset /\ OnlySlots

SpecPrec == InitPrec /\ [][NextPrec]_vars

SpecReward == InitRew /\ [][NextRew]_vars

SpecSlots == InitSlots /\ [][NextSlots]_vars

SpecENode == InitENode /\ [][NextENode]_vars

SpecLIF == InitLIF /\ [][NextLIF]_vars

SpecBern == InitBern /\ [][NextBern]_vars

SpecKernel == InitKern /\ [][NextKern]_vars

NextCells == NextLIF \/ NextBern

SpecCells == (InitLIF \/ InitBern) /\ [][NextCells]_vars

----------------------------------------------------------------------------
(* Properties of the LIFCell *)

\* the step taken is an advance_state of the LIFCell / of the BernoulliCell
LIFAdvanced  == lif_clock' # lif_clock
BernAdvanced == bern_clock' # bern_clock
\* the time t that was passed to the last advance_state
LIFNow  == lif_clock - Dt
BernNow == bern_clock - Dt
KernNow == kern_clock - Dt

\* C1: a unit whose refractory counter is still below refract_T (it spiked
\* less than refract_T ago) emits no spike in an advance_state, whatever the
\* input current and the parameter setting.
CE_C1 ==
    [][LIFAdvanced =>
         \A i \in Units :
            lif_rfr[i] < lif_cfg.refract_T => lif_s'[i] = 0 /\ lif_raw'[i] = 0]_vars

\* C2: with one_spike True the output of advance_state holds exactly one
\* spike, at a unit that crossed threshold, when some unit crossed, and none
\* otherwise; with one_spike False the output is the raw crossing pattern.
CE_C2 ==
    [][LIFAdvanced =>
         IF lif_cfg.one_spike
         THEN IF \E i \in Units : lif_raw'[i] = 1
              THEN /\ Cardinality({i \in Units : lif_s'[i] = 1}) = 1
                   /\ \A i \in Units : lif_s'[i] = 1 => lif_raw'[i] = 1
              ELSE lif_s' = Zeros
         ELSE lif_s' = lif_raw']_vars

\* C8: after every advance_state at time t (BernoulliCell and LIFCell), the
\* trace of an element whose output spike is 1 equals t, and the trace of an
\* element whose output spike is 0 is what it was before the step.
Thm_C8 ==
    [][/\ LIFAdvanced =>
            \A i \in Units :
               /\ lif_s'[i] = 1 => lif_tols'[i] = lif_clock
               /\ lif_s'[i] = 0 => lif_tols'[i] = lif_tols[i]
       /\ BernAdvanced =>
            \A i \in BUnits :
               /\ bern_outputs'[i] = 1 => bern_tols'[i] = bern_clock
               /\ bern_outputs'[i] = 0 => bern_tols'[i] = bern_tols[i]]_vars

\* a LIFCell step in which one unit spikes at t > 0, overwriting an older
\* trace, while another unit keeps the nonzero trace of an earlier spike
Wit_C8 ==
    /\ sched = "lif"
    /\ \E i, k \in Units :
         /\ lif_s[i] = 1 /\ lif_tols[i] = LIFNow /\ LIFNow > 0
         /\ lif_s[k] = 0 /\ lif_tols[k] > 0 /\ lif_tols[k] < LIFNow

\* C10: after reset(), one or more advance_state calls with zero input
\* current leave every membrane potential at v_rest and emit no spike, so
\* the time-of-last-spike trace stays 0.
Thm_C10 ==
    lif_rest >= 1 =>
        /\ lif_v = [i \in Units |-> VRestDefault]
        /\ lif_s = Zeros
        /\ lif_raw = Zeros
        /\ lif_tols = Zeros

\* two resting steps after a reset() that followed a spike (the adaptive
\* threshold offset shows the earlier activity)
Wit_C10 ==
    /\ lif_rest >= 2
    /\ lif_clock > lif_rest
    /\ \E i \in Units : lif_theta[i] > 0

----------------------------------------------------------------------------
(* Properties of the BernoulliCell *)

\* C9: in rate-constrained mode an element spikes only when its uniform draw
\* is below (dt/1000)*fmax, i.e. with probability at most (dt/1000)*fmax,
\* whatever the raw input value.
CE_C9 ==
    bern_cfg.target_freq > 0 =>
        \A i \in BUnits :
           bern_outputs[i] = 1 => bern_eps[i] < Dt * bern_cfg.target_freq * 10

----------------------------------------------------------------------------
(* Properties of the ExpKernel *)

----------------------------------------------------------------------------
(* Properties of the ENode *)

RECURSIVE SumContrib(_, _, _, _)
\* the sum of the contributions of the cables 1..j that write dest
SumContrib(cables, src, dest, j) ==
    IF j = 0 THEN VZero
    ELSE IF cables[j].out_var = dest
         THEN VAdd(SumContrib(cables, src, dest, j - 1),
                   Propagate(cables[j], src[j]))
         ELSE SumContrib(cables, src, dest, j - 1)

Writes(cables, dest) == \E j \in 1..Len(cables) : cables[j].out_var = dest

\* C3: every tick is zero whenever a step can start, and after an unclamped
\* step every destination variable written by a cable holds the sum of
\* exactly this step's contributions to it.
Thm_C3 ==
    /\ ~en_halted => en_tick = BuildTick
    /\ en_last.kind \in {"core", "exit"} =>
          \A dest \in {"pred_mu", "pred_targ"} :
             Writes(en_cables, dest) =>
                en_stat[dest] = SumContrib(en_cables, en_last.src, dest,
                                           Len(en_cables))

\* a completed step in which two cables wrote pred_targ and their unequal
\* contributions were added
Wit_C3 ==
    /\ en_last.kind = "core"
    /\ Len(en_cables) = 3
    /\ en_cables[2].out_var = "pred_targ" /\ en_cables[3].out_var = "pred_targ"
    /\ en_last.src[2] # en_last.src[3]
    /\ en_stat.pred_targ = VAdd(Propagate(en_cables[2], en_last.src[2]),
                                Propagate(en_cables[3], en_last.src[3]))
    /\ en_tick = BuildTick

\* exactly two cables, each to pred_mu or pred_targ
TwoEdgesToFixedNames(cables) ==
    /\ Len(cables) = 2
    /\ \A j \in 1..Len(cables) : cables[j].out_var \in {"pred_mu", "pred_targ"}

\* C4: check_correctness succeeds exactly for a node with two incoming edges
\* that target pred_mu or pred_targ, and it can be decided while the graph is
\* being set up, when no step has run.
Thm_C4 ==
    /\ en_ok # "unchecked" =>
          (en_ok = "true" <=> TwoEdgesToFixedNames(en_cables))
    /\ (en_ok # "unchecked" /\ en_phase = "setup") =>
          en_last.kind = "none" /\ en_stat = StatInit

\* three well-named edges are rejected during setup
Wit_C4 ==
    /\ en_phase = "setup"
    /\ en_ok = "false"
    /\ Len(en_cables) = 3
    /\ \A j \in 1..3 : en_cables[j].out_var \in {"pred_mu", "pred_targ"}

\* C5: an unclamped, non-skipped step that finds pred_mu or pred_targ without
\* a value halts the simulation and leaves L, z, dz and phi(z) as they were;
\* a step that completes its core had a value for both.
Thm_C5 ==
    [][/\ en_last'.kind = "exit" => en_halted'
       /\ (~en_halted /\ en_last'.kind = "exit") =>
             /\ en_stat'.L = en_stat.L
             /\ en_stat'.z = en_stat.z
             /\ en_stat'.dz = en_stat.dz
             /\ en_stat'.phiz = en_stat.phiz
       /\ en_last'.kind = "core" =>
             en_stat'.pred_mu # None /\ en_stat'.pred_targ # None]_vars

\* the node halted in a step whose cables wrote pred_mu but not pred_targ
Wit_C5 ==
    /\ en_halted
    /\ en_last.kind = "exit"
    /\ en_stat.pred_mu # None /\ en_stat.pred_targ = None
    /\ en_stat.L = None /\ en_stat.dz = None /\ en_stat.phiz = None

\* the matrix is symmetric and its factorisation succeeds
PosDef(A) == Symmetric(A) /\ CholOK(A)

\* C6: the covariance matrix is symmetric at every point, and every matrix
\* handed to the Cholesky factorisation is positive-definite.
CE_C6 ==
    /\ en_Sigma # None => Symmetric(en_Sigma)
    /\ en_chol # None => PosDef(en_chol)

----------------------------------------------------------------------------
(* Properties of the RewardErrorCell *)

\* the step taken is an advance_state / an evolve of the RewardErrorCell
RewAdvanced == rew_ops' # rew_ops /\ rew_last' = "advance"
RewEvolved  == rew_ops' # rew_ops /\ rew_last' = "evolve"

AllZero(a) == \A i \in 1..Len(a) : a[i] = RInt(0)

\* C11: after any sequence of advance_state, evolve and reset calls every
\* slot has the shape it was constructed with ((1, n_units) for mu, rpe,
\* reward and accum_reward, (1, 1) for n_ep_steps and Ns), and right after
\* reset every slot is all-zero.
CE_C11 ==
    /\ Len(rew_mu) = RewUnits
    /\ Len(rew_rpe) = RewUnits
    /\ Len(rew_reward) = RewUnits
    /\ Len(rew_accum) = RewUnits
    /\ Len(rew_n) = 1
    /\ Len(rew_Ns) = 1
    /\ rew_last = "reset" =>
          /\ AllZero(rew_mu) /\ AllZero(rew_rpe) /\ AllZero(rew_reward)
          /\ AllZero(rew_accum) /\ AllZero(rew_n) /\ AllZero(rew_Ns)

\* C13: every advance_state sets rpe to reward minus the predictor as it was
\* before the step, mu' to mu*(1-alpha) + reward*alpha, adds reward to
\* accum_reward and 1 to the step counter; so the gap obeys
\* r - mu' = (1-alpha)*(r - mu), |r - mu| does not grow, and in a run of
\* advances with the same reward rpe shrinks by the factor (1-alpha).
Thm_C13 ==
    [][RewAdvanced =>
         LET a == rew_cfg.alpha
             shrink == RSub(RInt(1), a)
         IN /\ rew_rpe' = BSub(rew_reward, rew_mu)
            /\ rew_accum' = BAdd(rew_accum, rew_reward)
            /\ rew_n' = SAdd(rew_n, RInt(1))
            /\ \A i \in 1..RewUnits :
                 LET r == At(rew_reward, i)
                 IN /\ At(rew_mu', i) = RAdd(RMul(At(rew_mu, i), shrink), RMul(r, a))
                    /\ RSub(r, At(rew_mu', i)) = RMul(shrink, RSub(r, At(rew_mu, i)))
                    /\ RLeq(RAbs(RSub(r, At(rew_mu', i))), RAbs(RSub(r, At(rew_mu, i))))
                    /\ rew_run >= 1 =>
                         /\ At(rew_rpe', i) = RMul(shrink, At(rew_rpe, i))
                         /\ RLeq(RAbs(At(rew_rpe', i)), RAbs(At(rew_rpe, i)))]_vars

\* two advances in a row with a nonzero reward: the predictor is strictly
\* between 0 and the reward and the error is still positive
Wit_C13 ==
    /\ rew_last = "advance"
    /\ rew_run >= 2
    /\ \E i \in 1..RewUnits :
         /\ RLess(RInt(0), At(rew_mu, i))
         /\ RLess(At(rew_mu, i), At(rew_reward, i))
         /\ RLess(RInt(0), At(rew_rpe, i))

\* C17: with accum' = accum_reward + reward and n' = step counter + 1, evolve
\* sets mu' = (1 - 1/ema_window_len)*mu + (1/ema_window_len)*(accum'/n') and
\* rpe = accum'/n' - mu', and leaves accum' in the accum_reward slot and n'
\* in the step counter slot.
CE_C17 ==
    [][RewEvolved =>
         LET accum2 == BAdd(rew_accum, rew_reward)
             n2 == SAdd(rew_n, RInt(1))
             r == BDiv(accum2, n2)
             w == Rat(1, rew_cfg.ema_window_len)
         IN /\ rew_mu' = BAdd(SMul(rew_mu, RSub(RInt(1), w)), SMul(r, w))
            /\ rew_rpe' = BSub(r, rew_mu')
            /\ rew_accum' = accum2
            /\ rew_n' = n2]_vars

----------------------------------------------------------------------------
(* Properties of the LIFCell property setters *)

\* the step taken is an assignment through a property setter
SlotAssigned == slot_last'.slot # "none" /\ slotVars' # slotVars

\* C12: assigning to any compartment of the LIFCell an array whose shape is
\* not the compartment's (1, n_units) raises at the assignment and leaves the
\* compartment as it was.
CE_C12 ==
    [][SlotAssigned =>
         ((slot_last'.shape # None /\ slot_last'.shape # SlotShape) =>
             /\ slot_last'.raised
             /\ slot_shape' = slot_shape)]_vars

----------------------------------------------------------------------------
(* The adaptive threshold of the LIFCell *)

\* C14: when tau_theta > 0 every advance_state sets the threshold offset of
\* each unit to offset*exp(-dt/tau_theta) + raw_spike*theta_plus, raw_spike
\* being the crossing pattern before the single-winner selection (so a unit
\* that crossed and was not retained is raised too); when tau_theta <= 0 the
\* advance leaves the offset alone, and so does every other operation, reset
\* included.
Thm_C14 ==
    [][/\ LIFAdvanced =>
            IF lif_cfg.tau_theta # "off"
            THEN \A i \in Units :
                    LET d == ThetaDecay(lif_cfg.tau_theta)
                    IN lif_theta'[i] =
                          (2 * lif_theta[i] * d[1] + d[2]) \div (2 * d[2])
                             + lif_raw'[i] * ThetaPlusDefault
            ELSE lif_theta' = lif_theta
       /\ ~LIFAdvanced => lif_theta' = lif_theta]_vars

\* a unit crossed threshold, lost the single-winner selection, and still had
\* its offset raised
Wit_C14 ==
    /\ sched = "lif"
    /\ lif_cfg.tau_theta # "off"
    /\ \E i, k \in Units :
         /\ lif_raw[i] = 1 /\ lif_s[i] = 0 /\ lif_theta[i] >= ThetaPlusDefault
         /\ lif_s[k] = 1

----------------------------------------------------------------------------
(* The forward output of the ENode *)

\* the step taken is an ENode.step
ENodeStepped ==
    /\ en_last'.kind \in {"core", "skipped", "exit", "raised"}
    /\ en_phase = "run" /\ en_phase' = "run"
    /\ en_ok' = en_ok

\* v times the mask m, when there is a mask and a value
Masked(v, m) == IF m # None /\ v # None THEN VMul(v, m) ELSE v

\* C15: a step that skips the core (the node is clamped, or skip_core_calc
\* is set) propagates no cable, keeps pred_mu, pred_targ and L, and sets
\* phi(z) to the nonlinearity of the z the node holds, times the mask; a step
\* that runs the core sets phi(z) to the nonlinearity of the z it computed,
\* times the mask.
Thm_C15 ==
    [][(ENodeStepped /\ en_Prec = None) =>
         /\ en_last'.kind = "skipped" =>
               /\ en_stat'.phiz = Masked(Fx(en_stat.z), en_stat.mask)
               /\ en_stat'.pred_mu = en_stat.pred_mu
               /\ en_stat'.pred_targ = en_stat.pred_targ
               /\ en_stat'.L = en_stat.L
               /\ en_tick' = en_tick
         /\ en_last'.kind = "core" =>
               en_stat'.phiz =
                  Masked(Fx(VSub(Masked(en_stat'.pred_targ, en_stat.mask),
                                 Masked(en_stat'.pred_mu, en_stat.mask))),
                         en_stat.mask)]_vars

\* a clamped node is stepped after a full step: its forward output is the
\* masked clamped value, not the error of the earlier step, and pred_mu,
\* pred_targ and L are still there
Wit_C15 ==
    /\ en_last.kind = "skipped"
    /\ en_clamped
    /\ en_stat.pred_mu # None /\ en_stat.pred_targ # None /\ en_stat.L # None
    /\ en_stat.mask # None
    /\ en_stat.phiz # None
    /\ en_stat.phiz # Masked(VSub(en_stat.pred_targ, en_stat.pred_mu), en_stat.mask)

----------------------------------------------------------------------------
(* compute_precision *)

\* the step taken is a compute_precision call / one with rebuild_cov=True
PrecComputed == en_ops' # en_ops /\ en_last'.kind = "prec"
PrecRebuilt  == PrecComputed /\ en_last'.src = <<TRUE>>

CE_C20 ==
    [][(PrecRebuilt /\ en_last.kind = "prec" /\ en_last.src = <<TRUE>>) =>
         /\ en_Sigma' = en_Sigma
         /\ en_Prec' = en_Prec]_vars

----------------------------------------------------------------------------
(* Validated wiring of the ENode, and the window of the ExpKernel *)

\* C18: when check_correctness has returned True for the wiring, no step
\* leaves through the missing-input exit: every step that runs the core
\* finds pred_mu and pred_targ written by its cables.
CE_C18 == en_ok = "true" => en_last.kind # "exit"

\* C19: a spike recorded at t0 > 0 (the only one of its unit) gives the term
\* exp(-(t - t0)/tau_w) on the advance that records it and on the following
\* ones, win_len advances in all, and nothing after that; the recording
\* advance outputs exp(0) = 1 even when win_len = 1.
CE_C19 ==
    \A i \in KUnits :
       (kern_spk[i].n = 1 /\ kern_spk[i].t0 > 0 /\ KernNow >= kern_spk[i].t0) =>
           kern_epsp[i] =
               IF KernNow - kern_spk[i].t0 <= (WinLen(kern_cfg.nu) - 1) * Dt
               THEN ExpKern(KernNow - kern_spk[i].t0)
               ELSE 0

====
